---- MODULE Spec2Model ----
(***************************************************************************)
(* costco-price-match: line normalisation (services/receipt_parser.py,     *)
(* _post_process), deal matching and deal filtering (services/analyzer.py, *)
(* find_potential_matches and _filter_deals), the analysis entry points    *)
(* (run_analysis, run_analysis_stream) and the deal scan                   *)
(* (services/price_scanner.py, scan_price_drops), each under a             *)
(* specification of its own: Spec, SpecTwice, SpecCarry and SpecNumber;    *)
(* SpecMatch and SpecTies; SpecFilter; SpecAnalysis; SpecStream and        *)
(* SpecStreamFair; SpecScan.                                               *)
(*                                                                         *)
(* Text is a sequence of one-character strings, so that strip, rstrip,     *)
(* upper, replace, the regular expressions and the numeric conversions are *)
(* computed character by character, as the Python code computes them.      *)
(* A receipt line is a function from the keys it carries to text; a key    *)
(* the extraction left out is simply not in its domain (dict.get).         *)
(* Amounts are integers, in cents or in thousandths.                       *)
(***************************************************************************)
EXTENDS Integers, Sequences, FiniteSets, Bags, TLC

\* ------------------------------------------------------------------ bounds

\* Longest receipt (number of raw lines) the model explores.
MaxLines == 3

\* ------------------------------------------------------------- characters

DigitSeq == <<"0", "1", "2", "3", "4", "5", "6", "7", "8", "9">>
Digits == {DigitSeq[i] : i \in 1..10}
DigitVal(c) == (CHOOSE i \in 1..10 : DigitSeq[i] = c) - 1

LowerSeq == <<"a", "b", "c", "d", "e", "f", "g", "h", "i", "j", "k", "l", "m",
              "n", "o", "p", "q", "r", "s", "t", "u", "v", "w", "x", "y", "z">>
UpperSeq == <<"A", "B", "C", "D", "E", "F", "G", "H", "I", "J", "K", "L", "M",
              "N", "O", "P", "Q", "R", "S", "T", "U", "V", "W", "X", "Y", "Z">>
Letters == {LowerSeq[i] : i \in 1..26} \cup {UpperSeq[i] : i \in 1..26}

\* str.upper() on one character.
ToUpper(c) ==
    IF \E i \in 1..26 : LowerSeq[i] = c
    THEN UpperSeq[CHOOSE i \in 1..26 : LowerSeq[i] = c]
    ELSE c

\* Whitespace of the model's alphabet (str.strip(), \s).
Space == {" "}

\* ------------------------------------------------------------------- text

\* str.upper()
Upper(s) == [i \in 1..Len(s) |-> ToUpper(s[i])]

RECURSIVE RStrip(_, _)
\* str.rstrip(chars): drop the longest suffix made of characters of chars.
RStrip(s, chars) ==
    IF s = <<>> \/ s[Len(s)] \notin chars THEN s
    ELSE RStrip(SubSeq(s, 1, Len(s) - 1), chars)

RECURSIVE LStrip(_, _)
\* str.lstrip(chars)
LStrip(s, chars) ==
    IF s = <<>> \/ s[1] \notin chars THEN s
    ELSE LStrip(Tail(s), chars)

\* str.strip()
Strip(s) == LStrip(RStrip(s, Space), Space)

\* str.replace(c, "") for a single character c.
Remove(s, c) == SelectSeq(s, LAMBDA x : x # c)

\* sub in s
Contains(s, sub) ==
    \E i \in 0..(Len(s) - Len(sub)) : SubSeq(s, i + 1, i + Len(sub)) = sub

\* str.startswith
StartsWith(s, p) == Len(p) <= Len(s) /\ SubSeq(s, 1, Len(p)) = p

\* str.endswith
EndsWith(s, p) ==
    Len(p) <= Len(s) /\ SubSeq(s, Len(s) - Len(p) + 1, Len(s)) = p

\* s[n:]
Drop(s, n) == SubSeq(s, n + 1, Len(s))

RECURSIVE Run(_, _)
\* Length of the longest prefix of s made of characters of chars
\* (a greedy character-class repetition anchored at the start).
Run(s, chars) ==
    IF s = <<>> \/ s[1] \notin chars THEN 0
    ELSE 1 + Run(Tail(s), chars)

\* ---------------------------------------------------------------- numbers

RECURSIVE NatVal(_)
\* Value of a digit string (empty: 0).
NatVal(s) ==
    IF s = <<>> THEN 0
    ELSE 10 * NatVal(SubSeq(s, 1, Len(s) - 1)) + DigitVal(s[Len(s)])

RECURSIVE NatText(_)
\* Decimal digits of a natural number.
NatText(n) ==
    IF n < 10 THEN <<DigitSeq[n + 1]>>
    ELSE NatText(n \div 10) \o <<DigitSeq[(n % 10) + 1]>>

\* A double holds integers of at most this many decimal digits without
\* overflow (sys.float_info.max is about 1.8e308); int / float conversion of
\* a longer integer raises OverflowError.
FloatMaxDigits == 309

\* float(s): [ok, cents].  ok = FALSE is ValueError.  Domain: text over
\* digits, ".", "+", "-", blanks and letters with at most two fraction
\* digits and without exponent, "inf" or "nan" forms; there Python accepts
\* exactly [sign] digits [. digits] with at least one digit.
ParseFloat(s) ==
    LET t    == Strip(s)
        sgn  == t # <<>> /\ t[1] \in {"+", "-"}
        body == IF sgn THEN Tail(t) ELSE t
        dots == {i \in 1..Len(body) : body[i] = "."}
        wf   == /\ \A i \in 1..Len(body) : body[i] \in Digits \cup {"."}
                /\ Cardinality(dots) <= 1
                /\ \E i \in 1..Len(body) : body[i] \in Digits
        dot  == IF dots = {} THEN Len(body) + 1 ELSE CHOOSE i \in dots : TRUE
        ip   == SubSeq(body, 1, dot - 1)
        fp   == SubSeq(body, dot + 1, Len(body))
        fd   == SubSeq(fp \o <<"0", "0">>, 1, 2)
        mag  == 100 * NatVal(ip) + NatVal(fd)
    IN  IF wf
        THEN [ok |-> TRUE, cents |-> IF t[1] = "-" THEN 0 - mag ELSE mag]
        ELSE [ok |-> FALSE, cents |-> 0]

\* int(s): [ok, huge, val].  ok = FALSE is ValueError; huge: the integer has
\* more digits than a double can hold (val is then not computed).
ParseInt(s) ==
    LET t    == Strip(s)
        sgn  == t # <<>> /\ t[1] \in {"+", "-"}
        body == IF sgn THEN Tail(t) ELSE t
        wf   == body # <<>> /\ \A i \in 1..Len(body) : body[i] \in Digits
        sig  == LStrip(body, {"0"})
        big  == Len(sig) > FloatMaxDigits
        mag  == IF big THEN 2 ELSE NatVal(sig)
    IN  IF wf
        THEN [ok |-> TRUE, huge |-> big,
              val |-> IF t[1] = "-" THEN 0 - mag ELSE mag]
        ELSE [ok |-> FALSE, huge |-> FALSE, val |-> 0]

\* f"{x:.2f}" for an amount of c >= 0 cents.
Format2f(c) ==
    NatText(c \div 100) \o <<".">>
        \o <<DigitSeq[((c % 100) \div 10) + 1], DigitSeq[(c % 10) + 1]>>

\* ------------------------------------------------------------ dict access

\* item.get(k, d)
Get(item, k, d) == IF k \in DOMAIN item THEN item[k] ELSE d

\* item[k] = v
Put(item, k, v) ==
    [x \in (DOMAIN item) \cup {k} |-> IF x = k THEN v ELSE item[x]]

\* item.setdefault(k, v)
SetDefault(item, k, v) == IF k \in DOMAIN item THEN item ELSE Put(item, k, v)

\* pending_qty = None.  The marker's group is \d+, never empty, so None and
\* the empty text are the two falsy values of "if pending_qty" and only None
\* occurs.
None == <<>>

\* ------------------------------------------------------------ the patterns

\* re.match(r"^(\d+)\s*@\s*[\d.]+", name): [ok, group1].  The classes \d, \s
\* and "@" are disjoint, so the greedy match is the only candidate.
QtyMatch(name) ==
    LET d  == Run(name, Digits)
        r1 == Drop(name, d)
        r2 == Drop(r1, Run(r1, Space))
        r3 == Drop(r2, 1)
        r4 == Drop(r3, Run(r3, Space))
    IN  [ok |-> /\ d >= 1
                /\ StartsWith(r2, <<"@">>)
                /\ Run(r4, Digits \cup {"."}) >= 1,
         group1 |-> SubSeq(name, 1, d)]

\* One "L\d+\s*MEMBER" style alternative of _NOISE_PATTERNS on upper-cased
\* text: letter, digits, blanks, MEMBER.
MemberMatch(u, letter) ==
    LET r1 == Drop(u, 1)
        d  == Run(r1, Digits)
        r2 == Drop(r1, d)
        r3 == Drop(r2, Run(r2, Space))
    IN  /\ StartsWith(u, <<letter>>)
        /\ d >= 1
        /\ StartsWith(r3, <<"M", "E", "M", "B", "E", "R">>)

\* _NOISE_PATTERNS.match(name), re.IGNORECASE.
NoiseMatch(name) ==
    LET u  == Upper(name)
        a1 == Drop(u, 3)
        a2 == Drop(a1, Run(a1, Space))
    IN  \/ /\ StartsWith(u, <<"A", "G", "E">>)
           /\ StartsWith(a2, <<"V", "E", "R", "I", "F", "I", "E", "D">>)
        \/ StartsWith(u, <<"D", "E", "P", "O", "S", "I", "T">>)
        \/ MemberMatch(u, "L")
        \/ MemberMatch(u, "N")
        \/ QtyMatch(name).ok

\* "TPD/" in name.upper()
IsTpdName(name) == Contains(Upper(name), <<"T", "P", "D", "/">>)

\* price_str.rstrip("abc...zABC...Z @#*")
CleanPrice(price_str) == RStrip(price_str, Letters \cup {" ", "@", "#", "*"})

\* The character class [\dOoBbIlSsGg].
NumChars == Digits \cup {"O", "o", "B", "b", "I", "l", "S", "s", "G", "g"}

\* re.match(r"^([\dOoBbIlSsGg]{4,8})\s+", n): [ok, raw].  Blanks are not in
\* the class, so giving characters back never helps: the leading run must
\* itself have 4 to 8 characters and be followed by a blank.
NumMatch(n) ==
    LET r == Run(n, NumChars)
    IN  [ok |-> r >= 4 /\ r <= 8 /\ Len(n) > r /\ n[r + 1] \in Space,
         raw |-> SubSeq(n, 1, r)]

\* One character of str.maketrans("OoBbIlSsGg", "0088115599").
TranslateChar(c) ==
    CASE c \in {"O", "o"} -> "0"
      [] c \in {"B", "b"} -> "8"
      [] c \in {"I", "l"} -> "1"
      [] c \in {"S", "s"} -> "5"
      [] c \in {"G", "g"} -> "9"
      [] OTHER -> c

\* raw.translate(...)
Translate(raw) == [k \in 1..Len(raw) |-> TranslateChar(raw[k])]

\* str.isdigit()
IsDigit(s) == s # <<>> /\ \A k \in 1..Len(s) : s[k] \in Digits

\* --------------------------------------------------------------- the input

\* A quantity text too long for a double: FloatMaxDigits + 1 nines.
HugeQty == [k \in 1..(FloatMaxDigits + 1) |-> "9"]

NoText == <<>>
TextW == <<"W">>

\* A raw line {name, price, qty, item_number}.
Line(name, price, qty, item_number) ==
    [name |-> name, price |-> price, qty |-> qty, item_number |-> item_number]

\* The raw lines receipts are made of: the extraction's text fields, every
\* branch of _post_process being taken by at least one of them.
RawLines ==
    { \* a plain item, quantity 2
      Line(TextW, <<"1", "0", ".", "0", "0">>, <<"2">>, NoText),
      \* an item with an OCR-misread number in its name and a lettered price
      Line(<<"O", "1", "2", "3", "4", " ", "W">>,
           <<"1", "2", ".", "5", "0", " ", "A">>, <<"1">>, NoText),
      \* an item whose name repeats its number
      Line(<<"1", "2", "3", "4", " ", "W">>, <<"9", ".", "9", "9">>, <<"1">>,
           <<"1", "2", "3", "4">>),
      \* item numbers that are not a short digit string
      Line(TextW, <<"5", ".", "0", "0">>, <<"1">>,
           <<"1", "2", "3", "4", "5", "6", "7", "8", "9">>),
      Line(TextW, <<"5", ".", "0", "0">>, <<"x">>, <<"A", "B", "C">>),
      \* a quantity no double holds
      Line(TextW, <<"5", ".", "0", "0">>, HugeQty, NoText),
      \* prices that are not an amount
      Line(TextW, <<"a", "b", "c">>, <<"1">>, NoText),
      Line(TextW, <<"0", ".", "0", "0">>, <<"1">>, NoText),
      \* TPD lines
      Line(<<"T", "P", "D", "/", "W">>, <<"3", ".", "0", "1", "-">>, <<"1">>,
           NoText),
      Line(<<"t", "p", "d", "/", "w">>, NoText, <<"1">>, NoText),
      Line(<<"T", "P", "D", "/", "W">>, <<"0">>, <<"1">>, NoText),
      \* a discount line known by its sign only
      Line(TextW, <<"1", "0", ".", "0", "0", "-">>, <<"1">>, NoText),
      \* a quantity marker and a noise line
      Line(<<"3", " ", "@", " ", "3", ".", "3", "3">>, <<"9", ".", "9", "9">>,
           <<"1">>, NoText),
      Line(<<"d", "e", "p", "o", "s", "i", "t">>, <<"0", ".", "1", "0">>,
           <<"1">>, NoText),
      \* a line with a price and nothing else
      [price |-> <<"-", "0">>] }

\* Receipts of at most MaxLines lines.
Receipts == UNION {[1..n -> RawLines] : n \in 0..MaxLines}

\* ------------------------------------------------------------------ state

VARIABLES
    items,        \* the argument of _post_process
    pc,           \* "filter", "merge", "done" or "raised"
    i,            \* position of the running loop in its list
    pending_qty,  \* the carried quantity, or None
    cleaned,      \* the first loop's result
    merged,       \* the second loop's result, returned at the end
    cleaned_from, \* history: for each line of cleaned, its index in items
    merged_from,  \* history: for each item of merged, where it came from
    run,          \* 1, or 2 when _post_process runs on its own output
    first_out,    \* the first run's result, kept for the second
    \* analyzer.py, find_potential_matches
    receipt_items,   \* the items of the loaded receipts, in receipt order
    drops,           \* the deal pool (the argument of _filter_deals)
    mpc,             \* "start", "deal", "best", "sort", "done" or "idle"
    ri_idx,          \* position of the outer loop in receipt_items
    d_idx,           \* position of the inner loop in drops
    ri_matches,      \* the matches of the item at ri_idx so far
    candidates,      \* the result list
    candidates_from, \* history: for each candidate, its item and its deal
    \* analyzer.py, _filter_deals
    sources,         \* _sources: None or a set of source names
    date_from,       \* _date_from: None or a date text
    date_to,         \* _date_to: None or a date text
    filtered,        \* the local list of _filter_deals
    fpc,             \* "sources", "from", "to", "done" or "idle"
    \* analyzer.py, run_analysis and run_analysis_stream
    target_receipt_ids, \* _target_receipt_ids: None or a list of ids
    args,            \* for each invocation, its kind and its arguments
    apc,             \* for each invocation: "idle", "running", "finished"
    used,            \* history: the module state each tool call read
    queue,           \* q, the queue from the agent thread to the generator
    full_text,       \* the chunks since the last tool event
    tpc,             \* the thread run(): "agent", "finally", "ended", "idle"
    gpc,             \* the generator: "get", "stopped", "raised", "idle"
    emitted,         \* history: the events the generator yielded
    lookup_ok,       \* _build_receipt_lookup returns (or raises)
    \* price_scanner.py, scan_price_drops
    store,           \* the price drops table: a bag of deals
    seen,            \* the keys of the running scan
    saved,           \* the deals the running scan saved
    skipped,         \* history: the deals the running scan did not save
    scan_n,          \* the scans started so far
    deal_n,          \* the deals the running scan has gone through
    spc              \* "scan", "ready" or "idle"

parser_vars == <<items, pc, i, pending_qty, cleaned, merged, cleaned_from,
                 merged_from, run, first_out>>
matcher_vars == <<receipt_items, mpc, ri_idx, d_idx, ri_matches, candidates,
                  candidates_from>>
filter_vars == <<sources, date_from, date_to, filtered, fpc>>

analysis_vars == <<target_receipt_ids, args, apc, used>>
stream_vars == <<queue, full_text, tpc, gpc, emitted, lookup_ok>>
scan_vars == <<store, seen, saved, skipped, scan_n, deal_n, spc>>

vars == <<parser_vars, drops, matcher_vars, filter_vars, analysis_vars,
          stream_vars, scan_vars>>

\* _post_process is not running.
ParserIdle ==
    /\ items = <<>>
    /\ pc = "idle"
    /\ i = 1
    /\ pending_qty = <<>>
    /\ cleaned = <<>>
    /\ merged = <<>>
    /\ cleaned_from = <<>>
    /\ merged_from = <<>>
    /\ run = 1
    /\ first_out = <<>>

\* find_potential_matches is not running.
MatcherIdle ==
    /\ receipt_items = <<>>
    /\ mpc = "idle"
    /\ ri_idx = 1
    /\ d_idx = 1
    /\ ri_matches = <<>>
    /\ candidates = <<>>
    /\ candidates_from = <<>>

\* _filter_deals is not running; no filter is set (lines 16-19).
FilterIdle ==
    /\ sources = <<>>
    /\ date_from = <<>>
    /\ date_to = <<>>
    /\ filtered = <<>>
    /\ fpc = "idle"

\* No analysis is running (line 16).
AnalysisIdle ==
    /\ target_receipt_ids = <<>>
    /\ args = <<>>
    /\ apc = <<>>
    /\ used = {}

\* run_analysis_stream is not running.
StreamIdle ==
    /\ queue = <<>>
    /\ full_text = <<>>
    /\ tpc = "idle"
    /\ gpc = "idle"
    /\ emitted = <<>>
    /\ lookup_ok = TRUE

\* scan_price_drops is not running and nothing is stored.
ScanIdle ==
    /\ store = <<>>
    /\ seen = {}
    /\ saved = <<>>
    /\ skipped = {}
    /\ scan_n = 0
    /\ deal_n = 0
    /\ spc = "idle"

Init ==
    /\ items \in Receipts
    /\ pc = "filter"
    /\ i = 1
    /\ pending_qty = None
    /\ cleaned = <<>>
    /\ merged = <<>>
    /\ cleaned_from = <<>>
    /\ merged_from = <<>>
    /\ run = 1
    /\ first_out = <<>>
    /\ drops = <<>>
    /\ MatcherIdle
    /\ FilterIdle
    /\ AnalysisIdle
    /\ StreamIdle
    /\ ScanIdle

\* The other functions are not running.
ParserOnly ==
    UNCHANGED <<drops, matcher_vars, filter_vars, analysis_vars, stream_vars,
                scan_vars>>

\* ------------------------------------------------------------- first loop

\* The line's stripped name and price (lines 137-138).
NameOf(item) == Strip(Get(item, "name", NoText))
PriceStr(item) == Strip(Get(item, "price", <<"0">>))

\* Lines 145-148: the line is noise, or carries no amount and is no TPD line.
Rejected(item) ==
    \/ NoiseMatch(NameOf(item))
    \/ /\ ~IsTpdName(NameOf(item))
       /\ PriceStr(item) \in {NoText, <<"0">>, <<"0", ".", "0", "0">>}

\* TakesQty without the TPD test.
TakesQtyAny(item, pending) == pending # None

\* Lines 150-152: the pending quantity goes to a line that is no TPD line.
TakesQty(item, pending) == pending # None /\ ~IsTpdName(NameOf(item))

\* One iteration of the first loop (lines 136-154).
FilterLine ==
    /\ pc = "filter"
    /\ i <= Len(items)
    /\ LET item == items[i]
           m    == QtyMatch(NameOf(item))
       IN  IF m.ok
           THEN /\ pending_qty' = m.group1
                /\ UNCHANGED <<cleaned, cleaned_from>>
           ELSE IF Rejected(item)
           THEN UNCHANGED <<pending_qty, cleaned, cleaned_from>>
           ELSE /\ cleaned' = Append(cleaned,
                                 IF TakesQty(item, pending_qty)
                                 THEN Put(item, "qty", pending_qty)
                                 ELSE item)
                /\ pending_qty' = IF TakesQty(item, pending_qty)
                                  THEN None ELSE pending_qty
                /\ cleaned_from' = Append(cleaned_from, i)
    /\ i' = i + 1
    /\ UNCHANGED <<items, pc, merged, merged_from, run, first_out>>
    /\ ParserOnly

\* The first loop ends; merged = [] (line 156).
StartMerge ==
    /\ pc = "filter"
    /\ i > Len(items)
    /\ pc' = "merge"
    /\ i' = 1
    /\ merged' = <<>>
    /\ merged_from' = <<>>
    /\ UNCHANGED <<items, pending_qty, cleaned, cleaned_from, run, first_out>>
    /\ ParserOnly

\* ------------------------------------------------------------ second loop

\* Line 160: the price without its trailing letters and marks.
CleanPriceOf(item) == CleanPrice(PriceStr(item))

\* Lines 161-162: is_tpd or is_negative.
IsDiscount(item) ==
    \/ IsTpdName(Get(item, "name", NoText))
    \/ EndsWith(CleanPriceOf(item), <<"-">>)

\* Line 167: the discount's amount, float(clean_price.replace("-", "")).
Discount(clean_price) == ParseFloat(Remove(clean_price, "-"))

\* Folds with "<=" written for "<".
FoldsOrEqual(prev, clean_price) ==
    /\ Discount(clean_price).ok
    /\ ParseFloat(prev.price).ok
    /\ Discount(clean_price).cents <= ParseFloat(prev.price).cents

\* Line 169: both amounts parse (no ValueError) and discount < orig.
Folds(prev, clean_price) ==
    /\ Discount(clean_price).ok
    /\ ParseFloat(prev.price).ok
    /\ Discount(clean_price).cents < ParseFloat(prev.price).cents

\* Assign with the price overwritten before it is saved as original_price.
AssignPriceFirst(prev, clean_price) ==
    LET p1 == Put(prev, "price",
                  Format2f(ParseFloat(prev.price).cents
                           - Discount(clean_price).cents))
        p2 == Put(p1, "original_price", p1.price)
    IN  Put(p2, "tpd", TRUE)

\* Assign without its last assignment, prev["tpd"] = True.
AssignNoTpd(prev, clean_price) ==
    LET p1 == Put(prev, "original_price", prev.price)
    IN  Put(p1, "price",
            Format2f(ParseFloat(prev.price).cents
                     - Discount(clean_price).cents))

\* Lines 170-172: the three assignments to prev, in their order.
Assign(prev, clean_price) ==
    LET p1 == Put(prev, "original_price", prev.price)
        p2 == Put(p1, "price",
                  Format2f(ParseFloat(prev.price).cents
                           - Discount(clean_price).cents))
    IN  Put(p2, "tpd", TRUE)

\* Lines 165-174: what a discount line does to the item before it.
Fold(prev, clean_price) ==
    IF Folds(prev, clean_price) THEN Assign(prev, clean_price) ELSE prev

\* Line 184: q > 1 and abs(p / q - round(p / q, 2)) > 0.001, for a price of
\* c cents.  c / q lies min(r, q - r) / q cents from the nearest cent, with
\* r = c mod q, and 0.001 is a tenth of a cent.  (Where the two sides are
\* equal the double arithmetic decides; no q of the input is a multiple of
\* 10.)
Uneven(c, q) ==
    LET r == c % q
        d == IF r <= q - r THEN r ELSE q - r
    IN  q > 1 /\ 10 * d > q

\* Lines 181-187: the quantity check: [raised, item].  int() and float()
\* failing is ValueError, which is caught; p / q with q beyond a double is
\* OverflowError, which is not.
CheckQty(item) ==
    LET q == ParseInt(Get(item, "qty", <<"1">>))
        p == ParseFloat(item.price)
    IN  IF ~q.ok \/ ~p.ok \/ q.val <= 1
        THEN [raised |-> FALSE, item |-> item]
        ELSE IF q.huge
        THEN [raised |-> TRUE, item |-> item]
        ELSE [raised |-> FALSE,
              item |-> IF Uneven(p.cents, q.val)
                       THEN Put(item, "qty", <<"1">>) ELSE item]

\* Lines 191-200: the item number read from the head of the name.
Recover(item) ==
    LET n == Get(item, "name", NoText)
        m == NumMatch(n)
    IN  IF Get(item, "item_number", NoText) = NoText
           /\ m.ok /\ IsDigit(Translate(m.raw))
        THEN Put(Put(item, "item_number", Translate(m.raw)),
                 "name", Strip(Drop(n, Len(m.raw))))
        ELSE item

\* Lines 201-203: an item number of more than 8 characters is cleared.
ClearLong(item) ==
    IF Len(Get(item, "item_number", NoText)) > 8
    THEN Put(item, "item_number", NoText)
    ELSE item

\* Lines 204-205: the name loses a leading copy of the item number.
StripNumber(item) ==
    LET n   == Get(item, "name", NoText)
        num == Get(item, "item_number", NoText)
    IN  IF num # NoText /\ StartsWith(n, num)
        THEN Put(item, "name", Strip(Drop(n, Len(num))))
        ELSE item

\* Lines 189-205.
FixNumber(item) == StripNumber(ClearLong(Recover(item)))

\* Lines 177-179: the price without signs, and the two defaults.
Defaults(item) ==
    SetDefault(SetDefault(
        Put(item, "price", Remove(CleanPriceOf(item), "-")),
        "tpd", FALSE), "original_price", NoText)

\* Lines 177-206 for a line that becomes an item: [raised, item].
Finalize(item) ==
    LET c == CheckQty(Defaults(item))
    IN  [raised |-> c.raised, item |-> FixNumber(c.item)]

\* Line 164: the line is folded into (or dropped after) the previous item.
ToPrevious(item, out) == IsDiscount(item) /\ out # <<>>

\* The first item taken for the last.
First(out) == 1

\* Line 165: prev = merged[-1], as an index of merged.
Last(out) == Len(out)

\* A discount line after an item (lines 164-175).  History: the fold, the
\* skip or the parse failure is counted on the item.
FoldLine ==
    /\ pc = "merge"
    /\ i <= Len(cleaned)
    /\ ToPrevious(cleaned[i], merged)
    /\ LET last == Last(merged)
           prev == merged[last]
           cp   == CleanPriceOf(cleaned[i])
           d    == Discount(cp)
           o    == ParseFloat(prev.price)
       IN  /\ merged' = [merged EXCEPT ![last] = Fold(prev, cp)]
           /\ merged_from' = [merged_from EXCEPT ![last] =
                  IF d.ok /\ o.ok /\ d.cents < o.cents
                  THEN [@ EXCEPT !.folds = @ + 1]
                  ELSE IF d.ok /\ o.ok
                  THEN [@ EXCEPT !.skips = @ + 1]
                  ELSE [@ EXCEPT !.bad = @ + 1]]
    /\ i' = i + 1
    /\ UNCHANGED <<items, pc, pending_qty, cleaned, cleaned_from, run,
                   first_out>>
    /\ ParserOnly

\* The item put before the others.
EmitFront(out, item) == <<item>> \o out

\* Line 206: merged.append(item).
Emit(out, item) == Append(out, item)

\* Any other line becomes an item (lines 177-206), unless the quantity check
\* raises.
FinalizeLine ==
    /\ pc = "merge"
    /\ i <= Len(cleaned)
    /\ ~ToPrevious(cleaned[i], merged)
    /\ LET f == Finalize(cleaned[i])
       IN  IF f.raised
           THEN /\ pc' = "raised"
                /\ UNCHANGED <<i, merged, merged_from>>
           ELSE /\ merged' = Emit(merged, f.item)
                /\ merged_from' = Append(merged_from,
                       [line |-> cleaned_from[i], price0 |-> f.item.price,
                        discount |-> IsDiscount(cleaned[i]),
                        folds |-> 0, skips |-> 0, bad |-> 0])
                /\ i' = i + 1
                /\ pc' = pc
    /\ UNCHANGED <<items, pending_qty, cleaned, cleaned_from, run, first_out>>
    /\ ParserOnly

\* return merged (line 207).
Return ==
    /\ pc = "merge"
    /\ i > Len(cleaned)
    /\ pc' = "done"
    /\ UNCHANGED <<items, i, pending_qty, cleaned, merged, cleaned_from,
                   merged_from, run, first_out>>
    /\ ParserOnly

\* _post_process is called again, on what it returned.
Rerun ==
    /\ pc = "done"
    /\ run = 1
    /\ items' = merged
    /\ first_out' = merged
    /\ run' = 2
    /\ pc' = "filter"
    /\ i' = 1
    /\ pending_qty' = None
    /\ cleaned' = <<>>
    /\ merged' = <<>>
    /\ cleaned_from' = <<>>
    /\ merged_from' = <<>>
    /\ ParserOnly

Next == FilterLine \/ StartMerge \/ FoldLine \/ FinalizeLine \/ Return

Spec == Init /\ [][Next]_vars

NextTwice == Next \/ Rerun

SpecTwice == Init /\ [][NextTwice]_vars

\* ------------------------------------------- receipts of few line kinds

\* One line of each kind the two loops tell apart: two quantity markers, a
\* TPD line, two items, a noise line and a line without an amount.
CarryLines ==
    { Line(<<"3", " ", "@", " ", "3", ".", "3", "3">>, <<"9", ".", "9", "9">>,
           <<"1">>, NoText),
      Line(<<"2", " ", "@", " ", "5", ".", "0", "0">>, <<"1", "0", ".", "0", "0">>,
           <<"1">>, NoText),
      Line(<<"T", "P", "D", "/", "W">>, <<"3", ".", "0", "1", "-">>, <<"1">>,
           NoText),
      Line(TextW, <<"1", "0", ".", "0", "0">>, <<"1">>, NoText),
      Line(TextW, <<"9", ".", "9", "9">>, <<"1">>, NoText),
      Line(<<"d", "e", "p", "o", "s", "i", "t">>, <<"0", ".", "1", "0">>,
           <<"1">>, NoText),
      Line(TextW, <<"0", ".", "0", "0">>, <<"1">>, NoText) }

\* _post_process on a receipt of at most MaxLines of these lines.
InitCarry ==
    /\ items \in UNION {[1..n -> CarryLines] : n \in 0..MaxLines}
    /\ pc = "filter"
    /\ i = 1
    /\ pending_qty = None
    /\ cleaned = <<>>
    /\ merged = <<>>
    /\ cleaned_from = <<>>
    /\ merged_from = <<>>
    /\ run = 1
    /\ first_out = <<>>
    /\ drops = <<>>
    /\ MatcherIdle
    /\ FilterIdle
    /\ AnalysisIdle
    /\ StreamIdle
    /\ ScanIdle

SpecCarry == InitCarry /\ [][Next]_vars

\* ------------------------------------------- receipts of numbered lines

\* Lines whose names begin with a number or with what may be one misread:
\* the letters read for digits, runs too short and too long, a number that
\* comes twice, item numbers given with the line, and a TPD line.
NumberLines ==
    { Line(<<"O", "1", "2", "3", "4", "5", "6", " ", "W", "I", "D", "G", "E", "T">>, <<"5", ".", "0", "0">>, <<"1">>, NoText),
      Line(<<"1", "2", "3", "4", " ", "1", "2", "3", "4", " ", "W">>, <<"5", ".", "0", "0">>, <<"1">>, NoText),
      Line(<<"W", "I", "D", "G", "E", "T">>, <<"5", ".", "0", "0">>, <<"1">>, NoText),
      Line(<<"1", "2", "3", " ", "W">>, <<"5", ".", "0", "0">>, <<"1">>, NoText),
      Line(<<"1", "2", "3", "4", "5", "6", "7", "8", "9", " ", "W">>, <<"5", ".", "0", "0">>, <<"1">>, NoText),
      Line(<<"O", "o", "B", "b", " ", "W">>, <<"5", ".", "0", "0">>, <<"1">>, NoText),
      Line(<<"I", "l", "S", "s", "G", "g", " ", "W">>, <<"5", ".", "0", "0">>, <<"1">>, NoText),
      Line(<<"W">>, <<"5", ".", "0", "0">>, <<"1">>, <<"1", "2", "3", "4", "5", "6", "7", "8", "9">>),
      Line(<<"1", "2", "3", "4", " ", "W">>, <<"5", ".", "0", "0">>, <<"1">>, <<"1", "2", "3", "4">>),
      Line(<<"T", "P", "D", "/", "W">>, <<"3", ".", "0", "1", "-">>, <<"1">>, NoText) }

\* _post_process on a receipt of at most MaxLines of these lines.
InitNumber ==
    /\ items \in UNION {[1..n -> NumberLines] : n \in 0..MaxLines}
    /\ pc = "filter"
    /\ i = 1
    /\ pending_qty = None
    /\ cleaned = <<>>
    /\ merged = <<>>
    /\ cleaned_from = <<>>
    /\ merged_from = <<>>
    /\ run = 1
    /\ first_out = <<>>
    /\ drops = <<>>
    /\ MatcherIdle
    /\ FilterIdle
    /\ AnalysisIdle
    /\ StreamIdle
    /\ ScanIdle

SpecNumber == InitNumber /\ [][Next]_vars

\* ===================================================================
\* analyzer.py: find_potential_matches and _filter_deals
\* ===================================================================

\* ------------------------------------------------------------------ bounds

\* Most receipt items and most deals the model explores.
MaxItems == 2
MaxDeals == 2

\* ------------------------------------------------------------------- text

\* str.lower() on one character.
ToLower(c) ==
    IF \E k \in 1..26 : UpperSeq[k] = c
    THEN LowerSeq[CHOOSE k \in 1..26 : UpperSeq[k] = c]
    ELSE c

\* str.lower()
Lower(s) == [k \in 1..Len(s) |-> ToLower(s[k])]

\* str.replace(a, b) for single characters a and b.
Replace(s, a, b) == [k \in 1..Len(s) |-> IF s[k] = a THEN b ELSE s[k]]

RECURSIVE Split(_)
\* str.split(): the maximal runs of characters that are no whitespace.
Split(s) ==
    IF s = <<>> THEN <<>>
    ELSE IF s[1] \in Space THEN Split(Tail(s))
    ELSE LET n == Run(s, {s[k] : k \in 1..Len(s)} \ Space)
         IN  <<SubSeq(s, 1, n)>> \o Split(Drop(s, n))

\* The characters of the model in code-point order, and a character's rank.
Ascii == <<" ", "-", ".", "/">> \o DigitSeq \o <<":">> \o UpperSeq \o LowerSeq
Code(c) == CHOOSE k \in 1..Len(Ascii) : Ascii[k] = c

RECURSIVE TextLeq(_, _)
\* a <= b on str: lexicographic by code point.
TextLeq(a, b) ==
    IF a = <<>> THEN TRUE
    ELSE IF b = <<>> THEN FALSE
    ELSE IF a[1] # b[1] THEN Code(a[1]) < Code(b[1])
    ELSE TextLeq(Tail(a), Tail(b))

\* s[:n]
Take(s, n) == SubSeq(s, 1, IF n < Len(s) THEN n ELSE Len(s))

\* float(s) for a price: [ok, mills], in thousandths.  ok = FALSE is
\* ValueError.  Domain: as ParseFloat, with at most three fraction digits.
ParseFloat3(s) ==
    LET t    == Strip(s)
        sgn  == t # <<>> /\ t[1] \in {"+", "-"}
        body == IF sgn THEN Tail(t) ELSE t
        dots == {k \in 1..Len(body) : body[k] = "."}
        wf   == /\ \A k \in 1..Len(body) : body[k] \in Digits \cup {"."}
                /\ Cardinality(dots) <= 1
                /\ \E k \in 1..Len(body) : body[k] \in Digits
        dot  == IF dots = {} THEN Len(body) + 1 ELSE CHOOSE k \in dots : TRUE
        ip   == SubSeq(body, 1, dot - 1)
        fp   == SubSeq(body, dot + 1, Len(body))
        fd   == SubSeq(fp \o <<"0", "0", "0">>, 1, 3)
        mag  == 1000 * NatVal(ip) + NatVal(fd)
    IN  IF wf
        THEN [ok |-> TRUE, mills |-> IF t[1] = "-" THEN 0 - mag ELSE mag]
        ELSE [ok |-> FALSE, mills |-> 0]

\* round(x, 2) for x >= 0 of m thousandths, in cents.  (At m % 10 = 5 the
\* double nearest to x decides; no two prices of the input differ so.)
Round2(m) == m \div 10 + (IF m % 10 >= 5 THEN 1 ELSE 0)

\* ------------------------------------------------------------------ input

\* Names, item numbers, prices and dates of the input.
TWidgetU == <<"W", "I", "D", "G", "E", "T">>
TSoapSoapU == <<"S", "O", "A", "P", " ", "S", "O", "A", "P">>
TSuperGadgetU ==
    <<"S", "U", "P", "E", "R", "/", "G", "A", "D", "G", "E", "T", " ", "P",
    "A", "C", "K">>
TWidgetThingU ==
    <<"W", "I", "D", "G", "E", "T", " ", "T", "H", "I", "N", "G">>
TWidgetDeal == <<"W", "i", "d", "g", "e", "t", " ", "D", "e", "a", "l">>
TGadgetSuperWidget ==
    <<"G", "a", "d", "g", "e", "t", " ", "S", "u", "p", "e", "r", " ", "W",
    "i", "d", "g", "e", "t">>
TSuperGadgetWidgetSoap ==
    <<"S", "u", "p", "e", "r", " ", "G", "a", "d", "g", "e", "t", " ", "W",
    "i", "d", "g", "e", "t", " ", "S", "o", "a", "p">>
TWidget == <<"W", "i", "d", "g", "e", "t">>
N1234567 == <<"1", "2", "3", "4", "5", "6", "7">>
N1234599 == <<"1", "2", "3", "4", "5", "9", "9">>
N1234 == <<"1", "2", "3", "4">>
P2500 == <<"2", "5", ".", "0", "0">>
P1950 == <<"1", "9", ".", "5", "0">>
P2000 == <<"2", "0", ".", "0", "0">>
P1900 == <<"1", "9", ".", "0", "0">>
P24999 == <<"2", "4", ".", "9", "9", "9">>
PAbc == <<"a", "b", "c">>
Date0105 == <<"2", "0", "2", "4", "-", "0", "1", "-", "0", "5">>
Date0201 == <<"2", "0", "2", "4", "-", "0", "2", "-", "0", "1">>

\* A receipt item as lines 89-96 build it.
Item(name, price, original_price, item_number, receipt_date, tpd) ==
    [name |-> name, price |-> price, original_price |-> original_price,
     item_number |-> item_number, receipt_date |-> receipt_date, tpd |-> tpd]

\* The receipt items of the input: a plain item with an item number; an
\* item whose name repeats a word of four letters; a discounted item with a
\* short item number; an item whose price is no number; an item with two
\* keywords.
ReceiptItems ==
    { Item(TWidgetU, P2500, NoText, N1234567, Date0201, FALSE),
      Item(TSoapSoapU, P2500, NoText, NoText, NoText, FALSE),
      Item(TSuperGadgetU, P1950, P2500, N1234, Date0105, TRUE),
      Item(TWidgetU, NoText, NoText, N1234567, Date0105, FALSE),
      Item(TWidgetThingU, P2500, NoText, NoText, Date0201, FALSE) }

\* The deals of the input, as put_price_drop stores them; the third one
\* without its item_number.
Deals ==
    { [item_name |-> TWidgetDeal, item_number |-> N1234567,
       sale_price |-> P2000],
      [item_name |-> TGadgetSuperWidget, item_number |-> N1234599,
       sale_price |-> P2000],
      [item_name |-> TSuperGadgetWidgetSoap, sale_price |-> P1900],
      [item_name |-> TWidget, item_number |-> N1234567, sale_price |-> PAbc],
      [item_name |-> TWidgetDeal, item_number |-> NoText,
       sale_price |-> P24999] }

ItemLists == UNION {[1..n -> ReceiptItems] : n \in 0..MaxItems}
DealLists == UNION {[1..n -> Deals] : n \in 0..MaxDeals}

\* find_potential_matches is called with the receipts and the deal pool
\* loaded (lines 78-96).
InitMatch ==
    /\ receipt_items \in ItemLists
    /\ drops \in DealLists
    /\ mpc = "start"
    /\ ri_idx = 1
    /\ d_idx = 1
    /\ ri_matches = <<>>
    /\ candidates = <<>>
    /\ candidates_from = <<>>
    /\ ParserIdle
    /\ FilterIdle
    /\ AnalysisIdle
    /\ StreamIdle
    /\ ScanIdle

\* The other functions are not running.
MatcherOnly ==
    UNCHANGED <<parser_vars, filter_vars, analysis_vars, stream_vars,
                scan_vars>>

\* ---------------------------------------------------------------- matching

\* Line 98.
skip_words ==
    { <<"t", "h", "e">>, <<"a", "n", "d">>, <<"f", "o", "r">>,
      <<"w", "i", "t", "h">>, <<"p", "a", "c", "k">>, <<"s", "i", "z", "e">>,
      <<"s", "i", "z", "e", "s">>, <<"p", "l", "u", "s">>,
      <<"m", "e", "n", "s">>, <<"w", "o", "m", "e", "n", "s">> }

\* Lines 102-103: ri_words, a list.
Words(name) ==
    SelectSeq(Split(Replace(Lower(name), "/", " ")),
              LAMBDA w : Len(w) >= 4 /\ w \notin skip_words)

\* sum(1 for w in ri_words if w in d_name)
Hits(ri_words, d_name) ==
    Cardinality({k \in DOMAIN ri_words : Contains(d_name, ri_words[k])})

\* The conditions of lines 115 and 117.
KeywordMatch(ri_words, d_name) ==
    \/ Len(ri_words) >= 2 /\ Hits(ri_words, d_name) >= 2
    \/ /\ Len(ri_words) = 1
       /\ Len(ri_words[1]) >= 5
       /\ Contains(d_name, ri_words[1])

\* Line 111.
ExactNumber(ri_num, d_num) ==
    ri_num # NoText /\ d_num # NoText /\ ri_num = d_num

\* Line 113.
PartialNumber(ri_num, d_num) ==
    /\ ri_num # NoText /\ d_num # NoText
    /\ Len(ri_num) >= 5 /\ Len(d_num) >= 5
    /\ Take(ri_num, 5) = Take(d_num, 5)

\* The tiers with the item-number prefix tested first.
MatchedByPrefixFirst(ri, d) ==
    LET ri_num == ri.item_number
        d_num  == Get(d, "item_number", NoText)
    IN  IF PartialNumber(ri_num, d_num) THEN "partial_item_number"
        ELSE IF ExactNumber(ri_num, d_num) THEN "exact_item_number"
        ELSE IF KeywordMatch(Words(ri.name), Lower(d.item_name))
        THEN "name_keyword"
        ELSE "None"

\* Lines 107-118: matched_by, "None" where the code leaves None.
MatchedBy(ri, d) ==
    LET ri_num == ri.item_number
        d_num  == Get(d, "item_number", NoText)
    IN  IF ExactNumber(ri_num, d_num) THEN "exact_item_number"
        ELSE IF PartialNumber(ri_num, d_num) THEN "partial_item_number"
        ELSE IF KeywordMatch(Words(ri.name), Lower(d.item_name))
        THEN "name_keyword"
        ELSE "None"

\* Line 133.
match_rank(matched_by) ==
    CASE matched_by = "exact_item_number" -> 3
      [] matched_by = "partial_item_number" -> 2
      [] matched_by = "name_keyword" -> 1
      [] OTHER -> 0

\* The price check with a price that is no number read as 0.
PriceCheckZero(ri, d) ==
    LET paid == ParseFloat3(ri.price)
        deal == ParseFloat3(d.sale_price)
    IN  IF deal.mills >= paid.mills
        THEN [keep |-> FALSE, savings |-> 0]
        ELSE [keep |-> TRUE, savings |-> Round2(paid.mills - deal.mills)]

\* Lines 124-131: [keep, savings], savings in cents.  float() failing is
\* ValueError, which is caught: continue.
PriceCheck(ri, d) ==
    LET paid == ParseFloat3(ri.price)
        deal == ParseFloat3(d.sale_price)
    IN  IF ~paid.ok \/ ~deal.ok
        THEN [keep |-> FALSE, savings |-> 0]
        ELSE IF deal.mills >= paid.mills
        THEN [keep |-> FALSE, savings |-> 0]
        ELSE [keep |-> TRUE, savings |-> Round2(paid.mills - deal.mills)]

\* Lines 134-150: the match appended to ri_matches.  History: deal_idx, the
\* deal's position in drops.
Match(ri, d, matched_by, savings, k) ==
    Put(Put([receipt_item |-> ri.name,
             receipt_price |-> ri.price,
             original_price |-> Get(ri, "original_price", NoText),
             receipt_item_number |-> ri.item_number,
             receipt_date |-> ri.receipt_date,
             tpd_at_purchase |-> ri.tpd,
             deal_name |-> d.item_name,
             deal_price |-> d.sale_price,
             deal_item_number |-> Get(d, "item_number", NoText),
             deal_source |-> Get(d, "source", NoText),
             deal_link |-> Get(d, "link", NoText),
             deal_expiry |-> Get(d, "promo_end", NoText),
             matched_by |-> matched_by,
             savings |-> savings],
            "_rank", match_rank(matched_by)),
        "deal_idx", k)

\* One iteration of the inner loop (lines 106-150).
MatchDeal ==
    /\ mpc = "deal"
    /\ d_idx <= Len(drops)
    /\ LET ri == receipt_items[ri_idx]
           d  == drops[d_idx]
           matched_by == MatchedBy(ri, d)
           c  == PriceCheck(ri, d)
       IN  ri_matches' =
               IF matched_by # "None" /\ c.keep
               THEN Append(ri_matches,
                           Match(ri, d, matched_by, c.savings, d_idx))
               ELSE ri_matches
    /\ d_idx' = d_idx + 1
    /\ UNCHANGED <<receipt_items, drops, mpc, ri_idx, candidates,
                   candidates_from>>
    /\ MatcherOnly

\* (a1, b1) <= (a2, b2) on tuples.
PairLeq(a1, b1, a2, b2) == a1 < a2 \/ (a1 = a2 /\ b1 <= b2)

\* The first match of the list that is maximal by (_rank, savings).
BestRankFirst(matches) ==
    LET k == CHOOSE k \in DOMAIN matches :
                 /\ \A j \in DOMAIN matches :
                        PairLeq(matches[j]["_rank"], matches[j].savings,
                                matches[k]["_rank"], matches[k].savings)
                 /\ \A j \in 1..(k - 1) :
                        ~PairLeq(matches[k]["_rank"], matches[k].savings,
                                 matches[j]["_rank"], matches[j].savings)
    IN  matches[k]

\* The last match of the list that is maximal by (savings, _rank).
BestLast(matches) ==
    LET k == CHOOSE k \in DOMAIN matches :
                 /\ \A j \in DOMAIN matches :
                        PairLeq(matches[j].savings, matches[j]["_rank"],
                                matches[k].savings, matches[k]["_rank"])
                 /\ \A j \in (k + 1)..Len(matches) :
                        ~PairLeq(matches[k].savings, matches[k]["_rank"],
                                 matches[j].savings, matches[j]["_rank"])
    IN  matches[k]

\* Line 154: max(ri_matches, key=(savings, _rank)), the first maximal match
\* of the list.
Best(matches) ==
    LET k == CHOOSE k \in DOMAIN matches :
                 /\ \A j \in DOMAIN matches :
                        PairLeq(matches[j].savings, matches[j]["_rank"],
                                matches[k].savings, matches[k]["_rank"])
                 /\ \A j \in 1..(k - 1) :
                        ~PairLeq(matches[k].savings, matches[k]["_rank"],
                                 matches[j].savings, matches[j]["_rank"])
    IN  matches[k]

\* Every match of the item is kept.
KeptAll(matches) == matches

\* Lines 153-156: the matches of the item that go to the result.
Kept(matches) == IF matches = <<>> THEN <<>> ELSE <<Best(matches)>>

\* Line 155, del best["_rank"] (and the history field with it).
Candidate(m) == [f \in DOMAIN m \ {"_rank", "deal_idx"} |-> m[f]]

\* The inner loop ends: lines 153-156, and the outer loop moves on.
KeepBest ==
    /\ mpc = "deal"
    /\ d_idx > Len(drops)
    /\ LET kept == Kept(ri_matches)
       IN  /\ candidates' =
                 candidates \o [k \in DOMAIN kept |-> Candidate(kept[k])]
           /\ candidates_from' =
                 candidates_from
                     \o [k \in DOMAIN kept |->
                            [item |-> ri_idx, deal |-> kept[k].deal_idx]]
    /\ ri_idx' = ri_idx + 1
    /\ d_idx' = 1
    /\ ri_matches' = <<>>
    /\ mpc' = IF ri_idx < Len(receipt_items) THEN "deal" ELSE "sort"
    /\ UNCHANGED <<receipt_items, drops>>
    /\ MatcherOnly

\* m.get("receipt_date", ""), the sort key of line 158.
DateKey(m) == Get(m, "receipt_date", NoText)

\* The position at which a candidate goes into the order so far: before the
\* candidates of equal date.
InsertBefore(order, n, cs) ==
    LET pos == Cardinality({j \in DOMAIN order :
                   /\ TextLeq(DateKey(cs[order[j]]), DateKey(cs[n]))
                   /\ DateKey(cs[order[j]]) # DateKey(cs[n])})
    IN  SubSeq(order, 1, pos) \o <<n>> \o SubSeq(order, pos + 1, Len(order))

\* list.sort is stable: a candidate goes after the candidates of equal key
\* that stood before it.
InsertAfter(order, n, cs) ==
    LET pos == Cardinality({j \in DOMAIN order :
                   TextLeq(DateKey(cs[order[j]]), DateKey(cs[n]))})
    IN  SubSeq(order, 1, pos) \o <<n>> \o SubSeq(order, pos + 1, Len(order))

RECURSIVE SortOrderUnstable(_, _)
\* An ascending order of the first n candidates that reverses equal dates.
SortOrderUnstable(cs, n) ==
    IF n = 0 THEN <<>>
    ELSE InsertBefore(SortOrderUnstable(cs, n - 1), n, cs)

RECURSIVE SortOrder(_, _)
\* Line 158: the order in which candidates.sort(key=...) leaves the first n
\* candidates, as their positions before the sort.
SortOrder(cs, n) ==
    IF n = 0 THEN <<>>
    ELSE InsertAfter(SortOrder(cs, n - 1), n, cs)

\* Lines 78-85 and 100: without receipt items or without deals there is
\* nothing to match and a message is returned.
StartMatch ==
    /\ mpc = "start"
    /\ mpc' = IF receipt_items = <<>> \/ drops = <<>> THEN "done" ELSE "deal"
    /\ UNCHANGED <<receipt_items, drops, ri_idx, d_idx, ri_matches,
                   candidates, candidates_from>>
    /\ MatcherOnly

\* Lines 158-159: the sort and the return.
SortCandidates ==
    /\ mpc = "sort"
    /\ LET order == SortOrder(candidates, Len(candidates))
       IN  /\ candidates' = [k \in DOMAIN order |-> candidates[order[k]]]
           /\ candidates_from' =
                  [k \in DOMAIN order |-> candidates_from[order[k]]]
    /\ mpc' = "done"
    /\ UNCHANGED <<receipt_items, drops, ri_idx, d_idx, ri_matches>>
    /\ MatcherOnly

NextMatch == StartMatch \/ MatchDeal \/ KeepBest \/ SortCandidates

SpecMatch == InitMatch /\ [][NextMatch]_vars

\* ------------------------------------------------------------ _filter_deals

\* Source names, dates and scan times (datetime.isoformat()) of the input.
SrcWeb == <<"w", "e", "b">>
SrcBook == <<"b", "o", "o", "k">>
Date1220 == <<"2", "0", "2", "3", "-", "1", "2", "-", "2", "0">>
Date0101 == <<"2", "0", "2", "4", "-", "0", "1", "-", "0", "1">>
Date0120 == <<"2", "0", "2", "4", "-", "0", "1", "-", "2", "0">>
Date0131 == <<"2", "0", "2", "4", "-", "0", "1", "-", "3", "1">>
Date0301 == <<"2", "0", "2", "4", "-", "0", "3", "-", "0", "1">>
Scan1215 ==
    <<"2", "0", "2", "3", "-", "1", "2", "-", "1", "5", "T", "0", "9", ":",
    "3", "0", ":", "0", "0">>
Scan0110 ==
    <<"2", "0", "2", "4", "-", "0", "1", "-", "1", "0", "T", "0", "9", ":",
    "3", "0", ":", "0", "0">>
Scan0210 ==
    <<"2", "0", "2", "4", "-", "0", "2", "-", "1", "0", "T", "0", "9", ":",
    "3", "0", ":", "0", "0">>

\* A stored deal (db.put_price_drop), with the fields _filter_deals reads.
Deal(source, promo_end, scanned_date) ==
    [source |-> source, promo_end |-> promo_end,
     scanned_date |-> scanned_date]

\* The deals of the input: scanned in January with a promotion ending in
\* March; scanned in January without promotion; scanned in December with a
\* promotion ending in January; scanned in January with a promotion that
\* ended in December; scanned in February, without source and promo_end;
\* scanned in February with a promotion ending in January.
StoredDeals ==
    { Deal(SrcWeb, Date0301, Scan0110),
      Deal(SrcWeb, NoText, Scan0110),
      Deal(SrcBook, Date0120, Scan1215),
      Deal(SrcBook, Date1220, Scan0110),
      [scanned_date |-> Scan0210],
      Deal(SrcWeb, Date0120, Scan0210) }

Pools == UNION {[1..n -> StoredDeals] : n \in 0..MaxDeals}

\* _filter_deals is called with the module state set by an analysis
\* (lines 16-19; None and the empty value are the same to "if").
InitFilter ==
    /\ drops \in Pools
    /\ sources \in {None, <<SrcWeb>>}
    /\ date_from \in {None, Date0101}
    /\ date_to \in {None, Date0131}
    /\ filtered = drops
    /\ fpc = "sources"
    /\ ParserIdle
    /\ MatcherIdle
    /\ AnalysisIdle
    /\ StreamIdle
    /\ ScanIdle

\* The other functions are not running.
FilterOnly ==
    UNCHANGED <<parser_vars, drops, matcher_vars, analysis_vars, stream_vars,
                scan_vars>>

\* Line 27: d.get("source", "") in src_set.
InSources(d) ==
    Get(d, "source", NoText) \in {sources[k] : k \in DOMAIN sources}

\* Line 29: d.get("promo_end") or d.get("scanned_date", "")[:10].
LowerDate(d) ==
    IF Get(d, "promo_end", None) # NoText
    THEN d.promo_end
    ELSE Take(Get(d, "scanned_date", NoText), 10)

\* Line 31: d.get("scanned_date", "")[:10] or d.get("promo_end", "9999").
UpperDate(d) ==
    IF Take(Get(d, "scanned_date", NoText), 10) # NoText
    THEN Take(Get(d, "scanned_date", NoText), 10)
    ELSE Get(d, "promo_end", <<"9", "9", "9", "9">>)

\* Lines 25-27.
FilterSources ==
    /\ fpc = "sources"
    /\ filtered' = IF sources # None
                   THEN SelectSeq(filtered, InSources)
                   ELSE filtered
    /\ fpc' = "from"
    /\ UNCHANGED <<sources, date_from, date_to>>
    /\ FilterOnly

\* Lines 28-29.
FilterFrom ==
    /\ fpc = "from"
    /\ filtered' = IF date_from # None
                   THEN SelectSeq(filtered,
                            LAMBDA d : TextLeq(date_from, LowerDate(d)))
                   ELSE filtered
    /\ fpc' = "to"
    /\ UNCHANGED <<sources, date_from, date_to>>
    /\ FilterOnly

\* Lines 30-32: the upper bound and the return.
FilterTo ==
    /\ fpc = "to"
    /\ filtered' = IF date_to # None
                   THEN SelectSeq(filtered,
                            LAMBDA d : TextLeq(UpperDate(d), date_to))
                   ELSE filtered
    /\ fpc' = "done"
    /\ UNCHANGED <<sources, date_from, date_to>>
    /\ FilterOnly

NextFilter == FilterSources \/ FilterFrom \/ FilterTo

SpecFilter == InitFilter /\ [][NextFilter]_vars

\* ===================================================================
\* analyzer.py: run_analysis and run_analysis_stream, overlapping
\* ===================================================================

\* The invocations that may overlap.
Invocations == {1, 2}

\* The arguments of an invocation.  run_analysis takes receipt_ids only.
Stream(receipt_ids, from, to, srcs) ==
    [kind |-> "stream", receipt_ids |-> receipt_ids, date_from |-> from,
     date_to |-> to, sources |-> srcs]
Sync(receipt_ids) ==
    [kind |-> "sync", receipt_ids |-> receipt_ids, date_from |-> None,
     date_to |-> None, sources |-> None]

\* The calls of the input: /api/analyze with and without filters
\* (app.py, lines 105-124), and run_analysis with and without ids
\* (agent.py, line 85).
Calls ==
    { Stream(<<"r1">>, Date0101, Date0131, <<SrcWeb>>),
      Stream(<<"r2">>, None, None, None),
      Sync(<<"r1">>),
      Sync(None) }

\* Nothing runs yet; the module state is as lines 16-19 leave it.
InitAnalysis ==
    /\ args \in [Invocations -> Calls]
    /\ apc = [a \in Invocations |-> "idle"]
    /\ target_receipt_ids = None
    /\ sources = None
    /\ date_from = None
    /\ date_to = None
    /\ used = {}
    /\ filtered = <<>>
    /\ fpc = "idle"
    /\ drops = <<>>
    /\ ParserIdle
    /\ MatcherIdle
    /\ StreamIdle
    /\ ScanIdle

\* What the analyses leave alone.
AnalysisOnly ==
    UNCHANGED <<parser_vars, drops, matcher_vars, filtered, fpc, args,
                stream_vars, scan_vars>>

\* run_analysis_stream, lines 275-279: the arguments go to the module state.
StartStream(a) ==
    /\ apc[a] = "idle"
    /\ args[a].kind = "stream"
    /\ target_receipt_ids' = args[a].receipt_ids
    /\ date_from' = args[a].date_from
    /\ date_to' = args[a].date_to
    /\ sources' = args[a].sources
    /\ apc' = [apc EXCEPT ![a] = "running"]
    /\ UNCHANGED used
    /\ AnalysisOnly

\* run_analysis, lines 249-250.
StartSync(a) ==
    /\ apc[a] = "idle"
    /\ args[a].kind = "sync"
    /\ target_receipt_ids' = args[a].receipt_ids
    /\ apc' = [apc EXCEPT ![a] = "running"]
    /\ UNCHANGED <<date_from, date_to, sources, used>>
    /\ AnalysisOnly

\* The agent of invocation a calls get_receipt_items or
\* find_potential_matches, which read _target_receipt_ids (lines 37, 78).
ReadIds(a) ==
    /\ apc[a] = "running"
    /\ used' = used \cup
           {[inv |-> a, tool |-> "ids", receipt_ids |-> target_receipt_ids,
             date_from |-> None, date_to |-> None, sources |-> None]}
    /\ UNCHANGED <<target_receipt_ids, date_from, date_to, sources, apc>>
    /\ AnalysisOnly

\* The agent of invocation a calls get_current_price_drops or
\* find_potential_matches, which call _filter_deals (lines 62, 82); it reads
\* _sources, _date_from and _date_to (lines 25-31).
ReadFilter(a) ==
    /\ apc[a] = "running"
    /\ used' = used \cup
           {[inv |-> a, tool |-> "filter", receipt_ids |-> None,
             date_from |-> date_from, date_to |-> date_to,
             sources |-> sources]}
    /\ UNCHANGED <<target_receipt_ids, date_from, date_to, sources, apc>>
    /\ AnalysisOnly

\* run_analysis_stream, lines 307-312: the finally of the thread.
FinishStream(a) ==
    /\ apc[a] = "running"
    /\ args[a].kind = "stream"
    /\ target_receipt_ids' = None
    /\ date_from' = None
    /\ date_to' = None
    /\ sources' = None
    /\ apc' = [apc EXCEPT ![a] = "finished"]
    /\ UNCHANGED used
    /\ AnalysisOnly

\* run_analysis, lines 267-268: the finally.
FinishSync(a) ==
    /\ apc[a] = "running"
    /\ args[a].kind = "sync"
    /\ target_receipt_ids' = None
    /\ apc' = [apc EXCEPT ![a] = "finished"]
    /\ UNCHANGED <<date_from, date_to, sources, used>>
    /\ AnalysisOnly

NextAnalysis ==
    \E a \in Invocations :
        \/ StartStream(a) \/ StartSync(a)
        \/ ReadIds(a) \/ ReadFilter(a)
        \/ FinishStream(a) \/ FinishSync(a)

SpecAnalysis == InitAnalysis /\ [][NextAnalysis]_vars

\* ===================================================================
\* analyzer.py: find_potential_matches on deals that tie
\* ===================================================================

\* An item with an item number and an item without one.
TieItems ==
    { Item(TWidgetU, P2500, NoText, N1234567, Date0201, FALSE),
      Item(TWidgetThingU, P2500, NoText, NoText, Date0201, FALSE) }

\* Deals at one price: the same deal from two sources, a deal of another
\* name with the same item number, and a deal whose number has the same
\* first five digits.
TieDeals ==
    { [item_name |-> TWidgetDeal, item_number |-> N1234567,
       sale_price |-> P2000, source |-> SrcWeb],
      [item_name |-> TWidgetDeal, item_number |-> N1234567,
       sale_price |-> P2000, source |-> SrcBook],
      [item_name |-> TWidget, item_number |-> N1234567,
       sale_price |-> P2000, source |-> SrcWeb],
      [item_name |-> TGadgetSuperWidget, item_number |-> N1234599,
       sale_price |-> P2000, source |-> SrcWeb] }

\* find_potential_matches is called with these receipts and deals loaded.
InitTies ==
    /\ receipt_items \in UNION {[1..n -> TieItems] : n \in 0..MaxItems}
    /\ drops \in UNION {[1..n -> TieDeals] : n \in 0..MaxDeals}
    /\ mpc = "start"
    /\ ri_idx = 1
    /\ d_idx = 1
    /\ ri_matches = <<>>
    /\ candidates = <<>>
    /\ candidates_from = <<>>
    /\ ParserIdle
    /\ FilterIdle
    /\ AnalysisIdle
    /\ StreamIdle
    /\ ScanIdle

SpecTies == InitTies /\ [][NextMatch]_vars

\* ===================================================================
\* price_scanner.py: scan_price_drops
\* ===================================================================

\* Most scans, and most deals the scrapers of one scan return.
MaxScans == 2
MaxBatch == 3

TWidgetSp == <<"W", "I", "D", "G", "E", "T", " ">>

\* A scraped deal; of its fields the scan reads these three.
Scraped(item_name, source, promo_end) ==
    [item_name |-> item_name, source |-> source, promo_end |-> promo_end]

\* What the scrapers may return: one product under two spellings, from two
\* sources, without promotion end or with one at the end of January.
ScrapedDeals ==
    {Scraped(n, src, pe) : n \in {TWidget, TWidgetSp},
                           src \in {SrcWeb, SrcBook},
                           pe \in {NoText, Date0131}}

\* today (line 366): the first scan runs on January 20, the later ones on
\* February 1.
Today(n) == IF n = 1 THEN Date0120 ELSE Date0201

InitScan ==
    /\ store = EmptyBag
    /\ seen = {}
    /\ saved = <<>>
    /\ skipped = {}
    /\ scan_n = 0
    /\ deal_n = 0
    /\ spc = "idle"
    /\ ParserIdle
    /\ drops = <<>>
    /\ MatcherIdle
    /\ FilterIdle
    /\ AnalysisIdle
    /\ StreamIdle

\* The other functions are not running.
ScanOnly ==
    UNCHANGED <<parser_vars, drops, matcher_vars, filter_vars, analysis_vars,
                stream_vars>>

\* Line 370: promo_end and promo_end < today.
Expired(deal, today) ==
    /\ deal.promo_end # NoText
    /\ deal.promo_end # today
    /\ TextLeq(deal.promo_end, today)

\* Line 372: (deal["item_name"].lower().strip(), promo_end).
Key(deal) == <<Strip(Lower(deal.item_name)), deal.promo_end>>

\* An existence check that finds nothing.
ItemExistsNever(table, item_name, source, promo_end) == FALSE

\* db.item_exists: a stored deal has this name and source, and this
\* promo_end if one is given.
ItemExists(table, item_name, source, promo_end) ==
    \E r \in BagToSet(table) :
        /\ r.item_name = item_name
        /\ r.source = source
        /\ promo_end # NoText => r.promo_end = promo_end

\* A fresh scan starts (lines 337-367): the deals are scraped, and seen and
\* saved are empty.
StartScan ==
    /\ spc \in {"idle", "ready"}
    /\ scan_n < MaxScans
    /\ scan_n' = scan_n + 1
    /\ seen' = {}
    /\ saved' = <<>>
    /\ skipped' = {}
    /\ deal_n' = 0
    /\ spc' = "scan"
    /\ UNCHANGED store
    /\ ScanOnly

\* One iteration of the loop over all_deals (lines 368-375).
ScanDeal(deal) ==
    /\ spc = "scan"
    /\ deal_n < MaxBatch
    /\ deal_n' = deal_n + 1
    /\ IF Expired(deal, Today(scan_n))
       THEN /\ skipped' = skipped \cup {[deal |-> deal, why |-> "expired"]}
            /\ UNCHANGED <<store, seen, saved>>
       ELSE IF Key(deal) \in seen
       THEN /\ skipped' = skipped \cup {[deal |-> deal, why |-> "seen"]}
            /\ UNCHANGED <<store, seen, saved>>
       ELSE IF ItemExists(store, deal.item_name, deal.source, deal.promo_end)
       THEN /\ skipped' = skipped \cup {[deal |-> deal, why |-> "exists"]}
            /\ UNCHANGED <<store, seen, saved>>
       ELSE /\ seen' = seen \cup {Key(deal)}
            /\ store' = store (+) SetToBag({deal})
            /\ saved' = Append(saved, deal)
            /\ UNCHANGED skipped
    /\ UNCHANGED <<scan_n, spc>>
    /\ ScanOnly

\* The loop ends and the scan returns saved (line 378).
FinishScan ==
    /\ spc = "scan"
    /\ spc' = "ready"
    /\ UNCHANGED <<store, seen, saved, skipped, scan_n, deal_n>>
    /\ ScanOnly

NextScan ==
    \/ StartScan
    \/ \E deal \in ScrapedDeals : ScanDeal(deal)
    \/ FinishScan

SpecScan == InitScan /\ [][NextScan]_vars

\* ===================================================================
\* analyzer.py: run_analysis_stream, the thread and the generator
\* ===================================================================

\* Most messages the callback handler puts during one agent call.
MaxEvents == 3

\* The messages of the callback handler (lines 284-291) and the events made
\* of them: a text chunk and the start of a tool call.
ChunkMsg == <<"chunk", "x">>
ToolMsg == <<"tool", "find_potential_matches">>

\* What one call of the handler puts: a chunk, a tool, or a chunk and a tool.
Puts == {<<ChunkMsg>>, <<ToolMsg>>, <<ChunkMsg, ToolMsg>>}

\* The event of a message, as the generator yields it (lines 323-335).
Event(type, text) == [type |-> type, text |-> text]

\* run_analysis_stream has set the module state and started the thread
\* (lines 275-317).  lookup_ok: every stored receipt item has a name and the
\* receipts table answers, so that _build_receipt_lookup returns.
InitStream ==
    /\ target_receipt_ids \in {None, <<"r1">>}
    /\ date_from = None
    /\ date_to = None
    /\ sources = None
    /\ queue = <<>>
    /\ full_text = <<>>
    /\ tpc = "agent"
    /\ gpc = "get"
    /\ emitted = <<>>
    /\ lookup_ok \in BOOLEAN
    /\ args = <<>>
    /\ apc = <<>>
    /\ used = {}
    /\ filtered = <<>>
    /\ fpc = "idle"
    /\ ParserIdle
    /\ drops = <<>>
    /\ MatcherIdle
    /\ ScanIdle

\* What the thread leaves alone while the agent runs.
ThreadOnly ==
    UNCHANGED <<parser_vars, drops, matcher_vars, filter_vars, analysis_vars,
                scan_vars, full_text, gpc, emitted, lookup_ok>>

\* The agent calls the handler (lines 284-291).
Callback(puts) ==
    /\ tpc = "agent"
    /\ Len(queue) + Len(emitted) + Len(puts) <= MaxEvents
    /\ queue' = queue \o puts
    /\ UNCHANGED tpc
    /\ ThreadOnly

\* a(prompt) returns (lines 303-304).
AgentReturns ==
    /\ tpc = "agent"
    /\ queue' = Append(queue, <<"done", "">>)
    /\ tpc' = "finally"
    /\ ThreadOnly

\* The agent raises an Exception (lines 305-306).
AgentRaises ==
    /\ tpc = "agent"
    /\ queue' = Append(queue, <<"error", "e">>)
    /\ tpc' = "finally"
    /\ ThreadOnly

\* The finally clause (lines 307-312), and the thread ends.
Finally ==
    /\ tpc = "finally"
    /\ target_receipt_ids' = None
    /\ date_from' = None
    /\ date_to' = None
    /\ sources' = None
    /\ tpc' = "ended"
    /\ UNCHANGED <<parser_vars, drops, matcher_vars, filtered, fpc, args, apc,
                   used, scan_vars, queue, full_text, gpc, emitted,
                   lookup_ok>>

\* "".join(full_text) with the receipt links injected (lines 331-333); the
\* chunks of the model hold no table row, and a line that is no table row
\* is left as it is (lines 235-247).
DoneText(chunks) == chunks

\* One iteration of the generator's loop (lines 320-335): a message is
\* taken from the queue and its event is yielded; after an error or a done
\* event the generator stops; _build_receipt_lookup raising ends the
\* generator with that exception.
GetMessage ==
    /\ gpc = "get"
    /\ queue # <<>>
    /\ queue' = Tail(queue)
    /\ LET msg_type == Head(queue)[1]
           data     == Head(queue)[2]
       IN  CASE msg_type = "chunk" ->
                    /\ full_text' = Append(full_text, data)
                    /\ emitted' = Append(emitted, Event("chunk", <<data>>))
                    /\ UNCHANGED gpc
             [] msg_type = "tool" ->
                    /\ full_text' = <<>>
                    /\ emitted' = Append(emitted, Event("tool", <<data>>))
                    /\ UNCHANGED gpc
             [] msg_type = "error" ->
                    /\ emitted' = Append(emitted, Event("error", <<data>>))
                    /\ gpc' = "stopped"
                    /\ UNCHANGED full_text
             [] msg_type = "done" ->
                    IF lookup_ok
                    THEN /\ emitted' = Append(emitted,
                                            Event("done", DoneText(full_text)))
                         /\ gpc' = "stopped"
                         /\ UNCHANGED full_text
                    ELSE /\ gpc' = "raised"
                         /\ UNCHANGED <<emitted, full_text>>
    /\ UNCHANGED <<parser_vars, drops, matcher_vars, filter_vars,
                   analysis_vars, scan_vars, tpc, lookup_ok>>

\* The steps of the thread.
ThreadNext ==
    \/ \E puts \in Puts : Callback(puts)
    \/ AgentReturns
    \/ AgentRaises
    \/ Finally

NextStream == ThreadNext \/ GetMessage

SpecStream == InitStream /\ [][NextStream]_vars

\* The thread runs until it ends, the agent call returning or raising after
\* finitely many calls of the handler; the consumer of the generator asks
\* for the next event as long as there is one.
SpecStreamFair ==
    /\ SpecStream
    /\ WF_vars(AgentReturns \/ AgentRaises)
    /\ WF_vars(Finally)
    /\ WF_vars(GetMessage)

\* ----------------------------------------------------------------- claims

\* The loop stands at a discount line that follows an item.
AtDiscount ==
    pc = "merge" /\ i <= Len(cleaned) /\ ToPrevious(cleaned[i], merged)

\* At such a line: the item's price P and the line's magnitude D, in cents.
AmountP == ParseFloat(merged[Len(merged)].price)
AmountD == ParseFloat(Remove(CleanPriceOf(cleaned[i]), "-"))

C2_FoldSkip ==
    [][(AtDiscount /\ AmountP.ok /\ AmountD.ok
          /\ AmountD.cents >= AmountP.cents)
       => merged' = merged]_vars

\* C2 witness: a discount line with D >= P has been dropped after an item,
\* which kept the price it was finalized with.
C2_Witness ==
    \E k \in DOMAIN merged :
        /\ merged_from[k].skips >= 1
        /\ merged_from[k].folds = 0
        /\ merged[k].price = merged_from[k].price0
        /\ merged[k].tpd = FALSE

\* C3: an item of the result has tpd true if and only if at least one
\* discount line was folded into it.
C3_TpdIffFolded ==
    \A k \in DOMAIN merged :
        (merged[k].tpd = TRUE) <=> (merged_from[k].folds > 0)

\* C3 witness: a returned result holds an item with a fold and tpd true, and
\* an item without a fold and tpd false.
C3_Witness ==
    /\ pc = "done"
    /\ \E j, k \in DOMAIN merged :
           /\ merged_from[j].folds > 0 /\ merged[j].tpd = TRUE
           /\ merged_from[k].folds = 0 /\ merged[k].tpd = FALSE

\* C4: for every item of the result with tpd true, original_price is the
\* price the item had when it was finalized, before any discount line was
\* folded into it, also when several discount lines follow the same item.
C4_OriginalPriceIsPreDiscount ==
    \A k \in DOMAIN merged :
        merged[k].tpd = TRUE
            => merged[k].original_price = merged_from[k].price0

\* C5: every item of the returned result whose quantity is above 1 has a
\* price that divides evenly by it: price / qty is within 0.001 of its
\* rounding to two decimals.
C5_QtyDividesFinalPrice ==
    pc = "done" =>
        \A k \in DOMAIN merged :
            LET q == ParseInt(Get(merged[k], "qty", <<"1">>))
                p == ParseFloat(merged[k].price)
            IN  (q.ok /\ ~q.huge /\ q.val > 1 /\ p.ok)
                    => ~Uneven(p.cents, q.val)

\* A clean non-negative decimal: digits with at most one ".", at least one
\* digit, nothing else.
CleanDecimal(t) ==
    /\ t # <<>>
    /\ \A k \in 1..Len(t) : t[k] \in Digits \cup {"."}
    /\ ParseFloat(t).ok

\* C6: every item of the result has a price that is a clean non-negative
\* decimal string.
C6_PriceIsCleanDecimal ==
    \A k \in DOMAIN merged : CleanDecimal(merged[k].price)

\* C7: every item of the result has an item_number that is empty or made of
\* at most 8 digits.
C7_ItemNumberIsShortDigits ==
    \A k \in DOMAIN merged :
        LET num == Get(merged[k], "item_number", NoText)
        IN  num = NoText \/ (IsDigit(num) /\ Len(num) <= 8)

\* C8: _post_process raises no exception, whatever text the fields hold.
C8_NeverRaises == pc # "raised"

\* C9: no item of the result comes from a line that is no discount line and
\* whose price text does not parse as a number (as it stands, or once its
\* trailing letters and signs are taken off).
C9_NoItemFromUnparseablePrice ==
    \A k \in DOMAIN merged :
        LET line == items[merged_from[k].line]
        IN  ~merged_from[k].discount
                => \/ ParseFloat(PriceStr(line)).ok
                   \/ ParseFloat(Remove(CleanPriceOf(line), "-")).ok

\* The names of a result carry no TPD marker and no leading item-number
\* token.
PlainNames(out) ==
    \A k \in DOMAIN out :
        /\ ~IsTpdName(Get(out[k], "name", NoText))
        /\ ~NumMatch(Get(out[k], "name", NoText)).ok

\* C10: idempotence.  _post_process applied to a result of its own whose
\* names carry no TPD marker and no embedded item number returns that
\* result, item by item and field by field.
C10_Idempotent ==
    (run = 2 /\ pc = "done" /\ PlainNames(first_out)) => merged = first_out

\* C11: the result preserves the input's order.  Its items come from input
\* lines of strictly increasing position (a subsequence, each line giving at
\* most one item), and an item into which nothing was folded carries the
\* amount of its own line.
C11_OrderPreserved ==
    /\ Len(merged_from) = Len(merged)
    /\ \A k \in DOMAIN merged :
           /\ merged_from[k].line \in 1..Len(items)
           /\ merged_from[k].folds = 0
                  => merged[k].price
                       = Remove(CleanPriceOf(items[merged_from[k].line]), "-")
    /\ \A j, k \in DOMAIN merged :
           j < k => merged_from[j].line < merged_from[k].line

\* C11 witness: a returned result of two items with different amounts, made
\* from the first and the third line of the input, the second being dropped.
C11_Witness ==
    /\ pc = "done"
    /\ Len(merged) = 2
    /\ merged_from[1].line = 1
    /\ merged_from[2].line = 3
    /\ merged[1].price # merged[2].price

\* The line the second loop stands at, as line 179 leaves it, with its
\* quantity and its price in cents.
AtFinalize ==
    pc = "merge" /\ i <= Len(cleaned) /\ ~ToPrevious(cleaned[i], merged)
LineQty == ParseInt(Get(Defaults(cleaned[i]), "qty", <<"1">>))
LinePrice == ParseFloat(Defaults(cleaned[i]).price)

\* p / q is more than 0.001 from its rounding to two decimals, for a price
\* of c cents: n is the cent nearest to c / q, and 0.001 is a tenth of a
\* cent.  A quantity beyond any double leaves p / q within 0.001 of 0.00.
FarFromCent(c, q) ==
    LET n == (2 * c + q) \div (2 * q)
        e == IF c >= n * q THEN c - n * q ELSE n * q - c
    IN  10 * e > q

\* C12: the quantity check at finalization.  When a line that is no discount
\* line is finalized with an integer qty q > 1 and a price p, the item is
\* added with qty "1" if p / q differs from its rounding to two decimals by
\* more than 0.001, and with the qty it had otherwise.
C12_QtyCheck ==
    [][(AtFinalize /\ ~IsDiscount(cleaned[i])
          /\ LineQty.ok /\ LineQty.val > 1 /\ LinePrice.ok)
       => /\ Len(merged') = Len(merged) + 1
          /\ merged'[Len(merged')].qty
                = IF ~LineQty.huge /\ FarFromCent(LinePrice.cents, LineQty.val)
                  THEN <<"1">>
                  ELSE Get(cleaned[i], "qty", <<"1">>)]_vars

\* The item and the deal a candidate was made from.
ItemOf(k) == receipt_items[candidates_from[k].item]
DealOf(k) == drops[candidates_from[k].deal]

\* The deal at position j matches the item at position n by some tier and
\* both prices are numbers with the deal's below the item's.
Qualifies(n, j) ==
    LET paid == ParseFloat3(receipt_items[n].price)
        deal == ParseFloat3(drops[j].sale_price)
    IN  /\ paid.ok /\ deal.ok /\ deal.mills < paid.mills
        /\ MatchedBy(receipt_items[n], drops[j]) # "None"

\* C13: every candidate has savings = receipt_price - deal_price rounded to
\* two decimals and strictly above 0, a deal_price strictly below its
\* receipt_price, and the receipt_price is the price the item was paid at,
\* not its original_price.
C13_SavingsPositive ==
    \A k \in DOMAIN candidates :
        LET paid == ParseFloat3(candidates[k].receipt_price)
            deal == ParseFloat3(candidates[k].deal_price)
        IN  /\ candidates[k].receipt_price = ItemOf(k).price
            /\ candidates[k].deal_price = DealOf(k).sale_price
            /\ paid.ok /\ deal.ok
            /\ deal.mills < paid.mills
            /\ candidates[k].savings = Round2(paid.mills - deal.mills)
            /\ candidates[k].savings > 0

\* C14: at most one candidate per receipt item instance.  The candidates
\* come from different positions of receipt_items, so they are never more
\* than the items, and at the return an item has a candidate exactly when
\* some deal qualifies for it.
C14_OnePerItem ==
    /\ Len(candidates) <= Len(receipt_items)
    /\ \A j, k \in DOMAIN candidates :
           j # k => candidates_from[j].item # candidates_from[k].item
    /\ mpc = "done" =>
           \A n \in DOMAIN receipt_items :
               (\E k \in DOMAIN candidates : candidates_from[k].item = n)
                   <=> (\E j \in DOMAIN drops : Qualifies(n, j))

\* C14 witness: two identical items, for which two different deals qualify,
\* have one candidate each.
C14_Witness ==
    /\ mpc = "done"
    /\ Len(receipt_items) = 2 /\ receipt_items[1] = receipt_items[2]
    /\ Len(drops) = 2 /\ drops[1] # drops[2]
    /\ Qualifies(1, 1) /\ Qualifies(1, 2)
    /\ Len(candidates) = 2

\* C15: best-match selection.  Every returned candidate carries the tier
\* and the savings of its own deal, and no deal that qualifies for its item
\* has a larger pair (savings, tier_rank) in lexicographic order, with
\* exact = 3, partial = 2 and keyword = 1.
C15_BestMatch ==
    mpc = "done" => \A k \in DOMAIN candidates :
        LET n  == candidates_from[k].item
            rk(t) == IF t = "exact_item_number" THEN 3
                     ELSE IF t = "partial_item_number" THEN 2 ELSE 1
            sv(j) == Round2(ParseFloat3(receipt_items[n].price).mills
                            - ParseFloat3(drops[j].sale_price).mills)
            tr(j) == MatchedBy(receipt_items[n], drops[j])
        IN  /\ Qualifies(n, candidates_from[k].deal)
            /\ candidates[k].savings = sv(candidates_from[k].deal)
            /\ candidates[k].matched_by = tr(candidates_from[k].deal)
            /\ \A j \in DOMAIN drops :
                   Qualifies(n, j) =>
                       \/ sv(j) < candidates[k].savings
                       \/ /\ sv(j) = candidates[k].savings
                          /\ rk(tr(j)) <= rk(candidates[k].matched_by)

\* C15 witness: an item with a partial_item_number match saving 5.00 and a
\* name_keyword match saving 6.00 has the keyword match as its candidate.
C15_Witness ==
    /\ mpc = "done"
    /\ \E k \in DOMAIN candidates :
           /\ candidates[k].matched_by = "name_keyword"
           /\ candidates[k].savings = 600
           /\ \E j \in DOMAIN drops :
                  /\ Qualifies(candidates_from[k].item, j)
                  /\ MatchedBy(ItemOf(k), drops[j]) = "partial_item_number"
                  /\ ParseFloat3(ItemOf(k).price).mills
                         - ParseFloat3(drops[j].sale_price).mills = 5000

\* The tier t is the one the precedence gives the pair of item ri and deal
\* d: exact for non-empty equal numbers; else partial for non-empty numbers
\* of length >= 5 with equal first 5 characters; else keyword, by the rule
\* of the code.
RightTier(t, ri, d) ==
    LET rn    == ri.item_number
        dn    == Get(d, "item_number", NoText)
        both  == rn # NoText /\ dn # NoText
        equal == both /\ rn = dn
        same5 == /\ both /\ Len(rn) >= 5 /\ Len(dn) >= 5
                 /\ SubSeq(rn, 1, 5) = SubSeq(dn, 1, 5)
    IN  /\ t \in {"exact_item_number", "partial_item_number", "name_keyword"}
        /\ equal <=> t = "exact_item_number"
        /\ (~equal /\ same5) <=> t = "partial_item_number"
        /\ t = "name_keyword"
               => KeywordMatch(Words(ri.name), Lower(d.item_name))

\* C16: tier classification.  Every match and every candidate carries as
\* matched_by one of the three tiers, the first one in the order exact,
\* partial, keyword whose condition its item and its deal satisfy; a pair
\* with equal item numbers is labelled exact.
C16_TierPrecedence ==
    /\ \A k \in DOMAIN ri_matches :
           RightTier(ri_matches[k].matched_by, receipt_items[ri_idx],
                     drops[ri_matches[k].deal_idx])
    /\ \A k \in DOMAIN candidates :
           RightTier(candidates[k].matched_by, ItemOf(k), DealOf(k))

\* C16 witness: the matches of one item are an exact one, with a deal of the
\* same item number, and a partial one, with a deal sharing five digits.
C16_Witness ==
    /\ Len(ri_matches) = 2
    /\ ri_matches[1].matched_by = "exact_item_number"
    /\ ri_matches[1].deal_item_number = ri_matches[1].receipt_item_number
    /\ ri_matches[2].matched_by = "partial_item_number"

\* The keyword rule on the set of the item's keywords.
KeywordSetRule(name, d_name) ==
    LET ws   == {Words(name)[k] : k \in DOMAIN Words(name)}
        hits == {w \in ws : Contains(d_name, w)}
    IN  \/ Cardinality(ws) >= 2 /\ Cardinality(hits) >= 2
        \/ /\ Cardinality(ws) = 1
           /\ \E w \in hits : Len(w) >= 5

\* C17: the keyword rule.  A candidate matched by name_keyword has an item
\* whose keyword set holds at least 2 keywords of which at least 2 occur in
\* the deal's lowercased name, or exactly 1 keyword, of length >= 5, that
\* occurs in it; a name repeating one keyword counts it once.
C17_KeywordSetRule ==
    \A k \in DOMAIN candidates :
        candidates[k].matched_by = "name_keyword"
            => KeywordSetRule(ItemOf(k).name, Lower(DealOf(k).item_name))

\* C18: the returned candidates are in ascending order of receipt_date, the
\* empty dates first, and candidates of equal date are in the order of
\* their items in receipt_items.
C18_SortedByDate ==
    mpc = "done" =>
        \A j, k \in DOMAIN candidates :
            j < k =>
                /\ TextLeq(candidates[j].receipt_date,
                           candidates[k].receipt_date)
                /\ candidates[k].receipt_date = NoText
                       => candidates[j].receipt_date = NoText
                /\ candidates[j].receipt_date = candidates[k].receipt_date
                       => candidates_from[j].item < candidates_from[k].item

\* C18 witness: the candidate of the second item, which has no date, is
\* returned before the candidate of the first item, which has one.
C18_Witness ==
    /\ mpc = "done"
    /\ Len(candidates) = 2
    /\ candidates_from[1].item = 2 /\ candidates[1].receipt_date = NoText
    /\ candidates_from[2].item = 1 /\ candidates[2].receipt_date # NoText

\* C20: prices that are no numbers.  No match and no candidate comes from a
\* pair in which the item's price or the deal's sale_price does not parse,
\* and at the return every item for which some deal qualifies has its
\* candidate, whatever other prices failed to parse.
C20_UnparseableSkipped ==
    /\ \A k \in DOMAIN ri_matches :
           /\ ParseFloat3(ri_matches[k].receipt_price).ok
           /\ ParseFloat3(ri_matches[k].deal_price).ok
    /\ \A k \in DOMAIN candidates :
           /\ ParseFloat3(ItemOf(k).price).ok
           /\ ParseFloat3(DealOf(k).sale_price).ok
    /\ mpc = "done" =>
           \A n \in DOMAIN receipt_items :
               (\E j \in DOMAIN drops : Qualifies(n, j))
                   => \E k \in DOMAIN candidates : candidates_from[k].item = n

\* C20 witness: an item whose price is no number has no candidate, and
\* another item has its candidate although a deal matching it has a
\* sale_price that is no number.
C20_Witness ==
    /\ mpc = "done"
    /\ Len(candidates) = 1
    /\ \E n \in DOMAIN receipt_items :
           /\ ~ParseFloat3(receipt_items[n].price).ok
           /\ \E j \in DOMAIN drops :
                  MatchedBy(receipt_items[n], drops[j]) # "None"
    /\ \E j \in DOMAIN drops :
           /\ ~ParseFloat3(drops[j].sale_price).ok
           /\ MatchedBy(ItemOf(1), drops[j]) # "None"

\* The one effective date of a deal: promo_end if present, otherwise the
\* scan date.
EffectiveDate(d) ==
    IF Get(d, "promo_end", NoText) # NoText
    THEN d.promo_end
    ELSE Take(Get(d, "scanned_date", NoText), 10)

\* C19: _filter_deals returns exactly the deals, in their order, whose
\* source is in the allowed set (when one is given) and whose effective
\* date is not before date_from and not after date_to (when given).
C19_EffectiveDateInRange ==
    fpc = "done" =>
        filtered = SelectSeq(drops, LAMBDA d :
            /\ sources = None
                   \/ Get(d, "source", NoText)
                          \in {sources[k] : k \in DOMAIN sources}
            /\ date_from = None \/ TextLeq(date_from, EffectiveDate(d))
            /\ date_to = None \/ TextLeq(EffectiveDate(d), date_to))

\* C21: isolation of overlapping analyses.  Every tool call made for an
\* invocation reads that invocation's own receipt_ids, date_from, date_to
\* and sources from the module state.
C21_Isolation ==
    \A u \in used :
        /\ u.tool = "ids" => u.receipt_ids = args[u.inv].receipt_ids
        /\ u.tool = "filter" =>
               /\ u.date_from = args[u.inv].date_from
               /\ u.date_to = args[u.inv].date_to
               /\ u.sources = args[u.inv].sources

\* C22: no line classified as a discount line (its name holds "TPD/" in any
\* case, or its cleaned price ends in "-") gives an item of its own, also
\* when it is the first surviving line.
C22_NoDiscountRecord ==
    \A k \in DOMAIN merged : ~merged_from[k].discount

\* The line at j is a quantity marker; it survives the first loop; it
\* survives and is no TPD line.
Marker(j) == QtyMatch(NameOf(items[j])).ok
Survives(j) == ~Marker(j) /\ ~Rejected(items[j])
Consumer(j) == Survives(j) /\ ~IsTpdName(NameOf(items[j]))

\* The last marker before line j, or 0.
LastMarker(j) ==
    IF \E m \in 1..(j - 1) : Marker(m)
    THEN CHOOSE m \in 1..(j - 1) :
             Marker(m) /\ \A x \in (m + 1)..(j - 1) : ~Marker(x)
    ELSE 0

\* The quantity carried to line j: that of the last marker before j, unless
\* a line between the two has taken it.
Carried(j) ==
    LET m == LastMarker(j)
    IN  IF m = 0 \/ \E x \in (m + 1)..(j - 1) : Consumer(x)
        THEN None
        ELSE QtyMatch(NameOf(items[m])).group1

\* C23: the carried quantity.  A marker line sets pending_qty to its N and
\* is dropped; the first later line that survives and is no TPD line gets it
\* as qty and clears it; no other line's qty changes; dropped lines and TPD
\* lines in between leave it pending; a later marker replaces it.
C23_CarriedQty ==
    LET n == IF pc = "filter" THEN i - 1 ELSE Len(items)
    IN  /\ pc = "filter" => pending_qty = Carried(i)
        /\ {cleaned_from[k] : k \in DOMAIN cleaned_from}
               = {j \in 1..n : Survives(j)}
        /\ Len(cleaned) = Len(cleaned_from)
        /\ \A k \in DOMAIN cleaned :
               LET j == cleaned_from[k]
               IN  cleaned[k] = IF Consumer(j) /\ Carried(j) # None
                                THEN Put(items[j], "qty", Carried(j))
                                ELSE items[j]

\* The first loop is over; line 1 was a marker, line 2 a TPD line that kept
\* its qty, and line 3 has the marker's quantity.
C23_Witness ==
    /\ pc = "merge"
    /\ Len(items) = 3
    /\ Marker(1)
    /\ Survives(2) /\ ~Consumer(2)
    /\ Consumer(3)
    /\ Len(cleaned) = 2
    /\ cleaned[1] = items[2]
    /\ cleaned[2].qty = QtyMatch(NameOf(items[1])).group1
    /\ cleaned[2].qty # items[3].qty

\* The lines of cleaned the second loop has gone through that lie, in input
\* order, after the line of item k and before the line of the next item.
After(k) ==
    {x \in 1..(i - 1) :
        /\ cleaned_from[x] > merged_from[k].line
        /\ k < Len(merged) => cleaned_from[x] < merged_from[k + 1].line}

\* C24: a discount line goes to the most recently finalized item before it
\* in input order, whatever was dropped between the two, and to no other
\* item: every item has been met by exactly the discount lines between its
\* own line and the next item's line, and an item no discount was folded
\* into is as its own line was finalized.
C24_FoldsIntoPrevious ==
    pc \in {"merge", "done", "raised"} =>
        \A k \in DOMAIN merged :
            /\ \A x \in After(k) : IsDiscount(cleaned[x])
            /\ merged_from[k].folds + merged_from[k].skips + merged_from[k].bad
                   = Cardinality(After(k))
            /\ merged_from[k].folds = 0 =>
                   \E x \in DOMAIN cleaned :
                       /\ cleaned_from[x] = merged_from[k].line
                       /\ merged[k] = Finalize(cleaned[x]).item

\* An item, a dropped line and a discount line: the discount is folded into
\* the item two lines before it.
C24_Witness ==
    /\ pc = "done"
    /\ Len(items) = 3
    /\ ~Survives(2)
    /\ cleaned_from = <<1, 3>>
    /\ IsDiscount(cleaned[2])
    /\ Len(merged) = 1
    /\ merged_from[1].line = 1
    /\ merged_from[1].folds = 1
    /\ merged[1].tpd = TRUE

\* The length of the token the name n begins with: 4 to 8 characters that
\* are digits or letters read for digits, and a blank after them; 0 if the
\* name begins with no such token.
Token(n) ==
    IF \E t \in 4..8 : /\ Len(n) > t
                       /\ \A x \in 1..t : n[x] \in NumChars
                       /\ n[t + 1] \in Space
    THEN CHOOSE t \in 4..8 : /\ Len(n) > t
                             /\ \A x \in 1..t : n[x] \in NumChars
                             /\ n[t + 1] \in Space
    ELSE 0

\* The digit a character of a token stands for.
Reading(c) ==
    IF c \in {"O", "o"} THEN "0"
    ELSE IF c \in {"B", "b"} THEN "8"
    ELSE IF c \in {"I", "l"} THEN "1"
    ELSE IF c \in {"S", "s"} THEN "5"
    ELSE IF c \in {"G", "g"} THEN "9"
    ELSE c

Ties(k, j) ==
    LET n  == candidates_from[k].item
        rk(t) == IF t = "exact_item_number" THEN 3
                 ELSE IF t = "partial_item_number" THEN 2 ELSE 1
    IN  /\ Qualifies(n, j)
        /\ Round2(ParseFloat3(receipt_items[n].price).mills
                  - ParseFloat3(drops[j].sale_price).mills)
               = candidates[k].savings
        /\ rk(MatchedBy(receipt_items[n], drops[j]))
               = rk(candidates[k].matched_by)

\* C27: tie-breaking.  Among the deals that match an item with equal savings
\* and equal tier rank, the candidate is made from the one that stands first
\* in the deal pool: no deal before the candidate's deal ties with it.
C27_FirstOfTies ==
    mpc = "done" => \A k \in DOMAIN candidates :
        /\ Ties(k, candidates_from[k].deal)
        /\ candidates[k].deal_name = DealOf(k).item_name
        /\ candidates[k].deal_source = Get(DealOf(k), "source", NoText)
        /\ \A j \in 1..(candidates_from[k].deal - 1) : ~Ties(k, j)

\* A candidate whose deal ties with a different deal later in the pool.
C27_Witness ==
    /\ mpc = "done"
    /\ \E k \in DOMAIN candidates :
           \E j \in DOMAIN drops :
               /\ j > candidates_from[k].deal
               /\ Ties(k, j)
               /\ drops[j] # DealOf(k)

\* The event is terminal.
Terminal(e) == e.type \in {"done", "error"}

\* The events yielded so far are chunk and tool events, followed by at most
\* one terminal event.
WellFormed ==
    \A k \in DOMAIN emitted : Terminal(emitted[k]) => k = Len(emitted)

\* The generator has yielded a terminal event and stopped.
Ended ==
    /\ gpc = "stopped"
    /\ emitted # <<>>
    /\ Terminal(emitted[Len(emitted)])

\* C28: the stream protocol.  In every run in which the agent call returns
\* or raises, the generator yields chunk and tool events and then exactly
\* one terminal event, done or error, and stops; nothing is yielded after
\* the terminal event; and the terminal event is eventually yielded.
C28_StreamProtocol ==
    /\ [](WellFormed /\ (gpc # "get" => Ended))
    /\ [][Ended => emitted' = emitted]_vars
    /\ <>Ended

====
